---- MODULE Spec2Model ----
(***************************************************************************)
(* Model of py-polars/src/series.rs: the PySeries wrapper around a polars  *)
(* Series, its method surface, and the two collection conversions          *)
(* to_series_collection / to_pyseries_collection.                          *)
(***************************************************************************)
EXTENDS Integers, Sequences, FiniteSets, TLC

VARIABLES
    coll,    \* the live Vec handle of the bridge: [elem, ptr, len, cap]
    mem,     \* the allocator's view: buffer cells and per-allocation free counts
    input,   \* the Vec<PySeries> the caller built (kept for comparison)
    nconv,   \* number of conversions performed so far
    obj,     \* the PySeries objects the caller holds, by handle
    arena,   \* the immutable chunk arrays referenced by the series' chunk lists
    last     \* the last method call: op, receiver, argument, result, state before

bridgeVars == <<coll, mem, input, nconv>>

seriesVars == <<obj, arena, last>>

vars == <<coll, mem, input, nconv, obj, arena, last>>

\* ------------------------------------------------------------------ bounds
MaxN == 2        \* largest collection length / capacity
MaxConv == 3     \* largest number of conversions in one run

\* ------------------------------------------------------------- element data
\* A nullable element is an Option: <<>> is null, <<x>> holds the value x.
Null == <<>>

Val(x) == <<x>>

Get(e) == e[1]

Names == {"a", "b"}

\* The payloads a bridged series may carry: (dtype, element sequence).
BridgePayloads ==
    { <<"i32", <<>>>>, <<"i32", <<Val(1), Null>>>>, <<"bool", <<Val(TRUE)>>>> }

\* A bare Series value as laid out in a Vec cell; storage names the allocation
\* that holds its chunks (0 = none).
SeriesBits(name, dtype, data, storage) ==
    [name |-> name, dtype |-> dtype, data |-> data, storage |-> storage]

Uninit == SeriesBits("?", "uninit", <<>>, 0)

\* PySeries::new: the wrapper has the single field `series`.
PySeries_new(series) == [series |-> series]

\* ------------------------------------------------------------------ Vec<T>
Dangling == "dangling"
Buf == "buf"

Vec_from_raw_parts(elem, p, len, cap) ==
    [elem |-> elem, ptr |-> p, len |-> len, cap |-> cap]

Moved == [elem |-> "moved", ptr |-> Dangling, len |-> 0, cap |-> 0]

Min(a, b) == IF a < b THEN a ELSE b

\* Drop of a Vec: drop every element in 0..len, then deallocate the buffer
\* when the capacity is non-zero.
Vec_drop(v, m) ==
    LET hit(a) == Cardinality({ i \in 1..Min(v.len, Len(m.cells)) :
                                   m.cells[i].storage = a })
    IN  [m EXCEPT
            !.storFrees = [a \in DOMAIN m.storFrees |-> m.storFrees[a] + hit(a)],
            !.bufFrees  = IF v.cap > 0 THEN @ + 1 ELSE @]

\* std::mem::ManuallyDrop::new: the wrapped value is not dropped at scope exit.
ManuallyDrop_dropping(v) == [value |-> v, dropAtExit |-> TRUE]

ManuallyDrop_new(v) == [value |-> v, dropAtExit |-> FALSE]

ScopeExit(local, m) ==
    IF local.dropAtExit THEN Vec_drop(local.value, m) ELSE m

\* A cast of the element pointer; PySeries is #[repr(transparent)] over Series,
\* so the cells are read unchanged under the other element type.
to_series_collection_swapped(ps, m) ==
    LET md  == ManuallyDrop_new(ps)
        p   == md.value.ptr
        len == md.value.len
        cap == md.value.cap
    IN  [ret |-> Vec_from_raw_parts("Series", p, cap, len), mem |-> ScopeExit(md, m)]

to_series_collection(ps, m) ==
    LET md  == ManuallyDrop_new(ps)
        p   == md.value.ptr
        len == md.value.len
        cap == md.value.cap
    IN  [ret |-> Vec_from_raw_parts("Series", p, len, cap), mem |-> ScopeExit(md, m)]

to_pyseries_collection(s, m) ==
    LET md  == ManuallyDrop_new(s)
        p   == md.value.ptr
        len == md.value.len
        cap == md.value.cap
    IN  [ret |-> Vec_from_raw_parts("PySeries", p, len, cap), mem |-> ScopeExit(md, m)]

\* The elements a Vec handle exposes, read through its element type.
Contents(v, m) ==
    [i \in 1..v.len |->
        LET bits == IF i <= Len(m.cells) THEN m.cells[i] ELSE Uninit
        IN  IF v.elem = "PySeries" THEN PySeries_new(bits) ELSE bits]

\* ------------------------------------------------------------ bridge machine
BridgeInputs ==
    UNION { { [i \in 1..n |->
                 PySeries_new(SeriesBits(nm[i], pl[i][1], pl[i][2], i))] :
              nm \in [1..n -> Names], pl \in [1..n -> BridgePayloads] } :
            n \in 0..MaxN }

BridgeInit ==
    /\ input \in BridgeInputs
    /\ \E cap \in Len(input)..MaxN :
          /\ coll = Vec_from_raw_parts("PySeries",
                        IF cap > 0 THEN Buf ELSE Dangling, Len(input), cap)
          /\ mem = [cells |-> [i \in 1..cap |->
                                  IF i <= Len(input) THEN input[i].series ELSE Uninit],
                    bufFrees |-> 0,
                    storFrees |-> [a \in 1..Len(input) |-> 0]]
    /\ nconv = 0
    /\ obj = <<>> /\ arena = <<>> /\ last = <<>>

ToSeriesCollection ==
    /\ coll.elem = "PySeries"
    /\ nconv < MaxConv
    /\ LET r == to_series_collection(coll, mem)
       IN  coll' = r.ret /\ mem' = r.mem
    /\ nconv' = nconv + 1
    /\ UNCHANGED <<input, seriesVars>>

ToPySeriesCollection ==
    /\ coll.elem = "Series"
    /\ nconv < MaxConv
    /\ LET r == to_pyseries_collection(coll, mem)
       IN  coll' = r.ret /\ mem' = r.mem
    /\ nconv' = nconv + 1
    /\ UNCHANGED <<input, seriesVars>>

\* The final owner goes out of scope.
DropCollection ==
    /\ coll.elem \in {"PySeries", "Series"}
    /\ mem' = Vec_drop(coll, mem)
    /\ coll' = Moved
    /\ UNCHANGED <<input, nconv, seriesVars>>

BridgeNext == ToSeriesCollection \/ ToPySeriesCollection \/ DropCollection

SpecBridge == BridgeInit /\ [][BridgeNext]_vars

Live == coll.elem \in {"PySeries", "Series"}

\* C1: any number of to_series_collection / to_pyseries_collection conversions
\* leaves a collection of the same length and order whose series have the same
\* name, dtype and element sequence (nulls included) as the input.
C1_RoundTripPreserves ==
    Live =>
        /\ coll.len = Len(input)
        /\ \A i \in 1..Len(input) :
              LET e == Contents(coll, mem)[i]
                  s == IF coll.elem = "PySeries" THEN e.series ELSE e
              IN  /\ s.name = input[i].series.name
                  /\ s.dtype = input[i].series.dtype
                  /\ s.data = input[i].series.data
        /\ (coll.elem = "PySeries" => Contents(coll, mem) = input)

C1_Witness ==
    /\ Live /\ coll.elem = "PySeries" /\ nconv >= 2
    /\ Len(input) = 2
    /\ \E i \in 1..2 : input[i].series.data = <<Val(1), Null>>

\* C2: while a collection is live nothing has been freed (the consumed source
\* released nothing); once the final collection is dropped, the buffer and every
\* series' storage have been freed exactly once.
C2_FreedExactlyOnce ==
    /\ mem.bufFrees <= 1
    /\ \A a \in DOMAIN mem.storFrees : mem.storFrees[a] <= 1
    /\ Live => /\ mem.bufFrees = 0
               /\ \A a \in DOMAIN mem.storFrees : mem.storFrees[a] = 0
    /\ ~Live => /\ mem.bufFrees = (IF Len(mem.cells) > 0 THEN 1 ELSE 0)
                /\ \A a \in DOMAIN mem.storFrees : mem.storFrees[a] = 1

C2_Witness ==
    /\ ~Live /\ nconv >= 2 /\ Len(input) >= 1
    /\ mem.bufFrees = 1 /\ mem.storFrees[1] = 1

\* =====================================================================
\* The Series core behind the wrapper (polars::prelude::Series).
\* =====================================================================

\* A Series held by an object: a name, a dtype tag and the list of chunk ids
\* it references in the arena.  A Series returned by a non-mutating call is
\* given by its name, dtype and element sequence.
Series(name, dtype, chunks) == [name |-> name, dtype |-> dtype, chunks |-> chunks]

SeriesVal(name, dtype, data) == [name |-> name, dtype |-> dtype, data |-> data]

NoObj == PySeries_new(Series("", "none", <<>>))

RECURSIVE Flatten(_)
Flatten(ss) == IF ss = <<>> THEN <<>> ELSE Head(ss) \o Flatten(Tail(ss))

\* The logical element sequence of a series: its chunks, concatenated.
Values(s, ar) == Flatten([i \in 1..Len(s.chunks) |-> ar[s.chunks[i]]])

View(s, ar) == SeriesVal(s.name, s.dtype, Values(s, ar))

IsNull(x) == x = Null

\* Results: Ok(v), Err(e) (a PyErr handed to the caller) or a panic.
Ok(v) == [kind |-> "Ok", val |-> v]

Err(e) == [kind |-> "Err", val |-> e]

Panic(why) == [kind |-> "Panic", val |-> why]

None == <<>>

Some(x) == <<x>>

\* PolarsError kinds the core reports.
PolarsError(kind) == [polars |-> kind]

\* Series::clone: the chunk list is copied, the chunk arrays are shared
\* (they are never written after construction).
Series_clone(s) == s

Series_rename(s, name) == [s EXCEPT !.name = name]

\* Series::append: the other's chunks are added after the receiver's.
Series_append(s, other) ==
    IF s.dtype # other.dtype
    THEN Err(PolarsError("TypeMismatch"))
    ELSE Ok([s EXCEPT !.chunks = @ \o other.chunks])

\* Order of sort/argsort: ascending by value, nulls last.
Before(dtype, x, y) ==
    IF IsNull(x) THEN FALSE
    ELSE IF IsNull(y) THEN TRUE
    ELSE IF dtype = "bool" THEN (Get(x) = FALSE /\ Get(y) = TRUE)
    ELSE Get(x) < Get(y)

\* Insertion of x into an ascending sequence, after its equals.
RECURSIVE InsertSorted(_, _, _)
InsertSorted(dtype, x, sorted) ==
    IF sorted = <<>> THEN <<x>>
    ELSE IF Before(dtype, x, Head(sorted)) THEN <<x>> \o sorted
    ELSE <<Head(sorted)>> \o InsertSorted(dtype, x, Tail(sorted))

RECURSIVE SortAsc(_, _)
SortAsc(dtype, data) ==
    IF data = <<>> THEN <<>>
    ELSE InsertSorted(dtype, data[Len(data)],
                      SortAsc(dtype, SubSeq(data, 1, Len(data) - 1)))

\* Series::sort: the receiver gets one fresh chunk holding its elements in
\* order; the chunks it referenced before are left as they were.
Series_sort(s, ar) ==
    [series |-> [s EXCEPT !.chunks = <<Len(ar) + 1>>],
     arena  |-> Append(ar, SortAsc(s.dtype, Values(s, ar)))]

\* Series::argsort: the 0-based positions, by repeated selection of the
\* first smallest remaining element.
RECURSIVE SelectOrder(_, _, _)
SelectOrder(dtype, data, left) ==
    IF left = {} THEN <<>>
    ELSE LET m == CHOOSE i \in left :
                     \A j \in left : j # i =>
                        \/ Before(dtype, data[i], data[j])
                        \/ (~Before(dtype, data[j], data[i]) /\ i < j)
         IN  <<m - 1>> \o SelectOrder(dtype, data, left \ {m})

Series_argsort(v) == SelectOrder(v.dtype, v.data, 1..Len(v.data))

\* Series::take: gather by 0-based index.
Series_take(v, indices) ==
    IF \E k \in 1..Len(indices) : indices[k] >= Len(v.data)
    THEN Err(PolarsError("OutOfBounds"))
    ELSE Ok(SeriesVal(v.name, v.dtype,
                      [k \in 1..Len(indices) |-> v.data[indices[k] + 1]]))

RECURSIVE SelectWhere(_, _)
SelectWhere(data, mask) ==
    IF data = <<>> THEN <<>>
    ELSE (IF mask[1] = Val(TRUE) THEN <<data[1]>> ELSE <<>>)
            \o SelectWhere(Tail(data), Tail(mask))

\* Series::filter with a boolean chunked array: a null mask entry drops.
Series_filter(v, mask) ==
    IF Len(mask.data) # Len(v.data)
    THEN Err(PolarsError("LengthMismatch"))
    ELSE Ok(SeriesVal(v.name, v.dtype, SelectWhere(v.data, mask.data)))

Series_null_count(v) == Cardinality({ i \in 1..Len(v.data) : IsNull(v.data[i]) })

\* Series::series_equal: dtype, length and every position (nulls matching).
Series_series_equal(a, b) ==
    /\ a.dtype = b.dtype
    /\ Len(a.data) = Len(b.data)
    /\ \A i \in 1..Len(a.data) : a.data[i] = b.data[i]

\* Null-aware fold over the elements: (sum, count of non-null).
RECURSIVE Fold(_, _, _)
Fold(data, acc, cnt) ==
    IF data = <<>> THEN [sum |-> acc, cnt |-> cnt]
    ELSE IF IsNull(Head(data)) THEN Fold(Tail(data), acc, cnt)
    ELSE Fold(Tail(data), acc + Get(Head(data)), cnt + 1)

Series_sum(v) ==
    LET f == Fold(v.data, 0, 0) IN IF f.cnt = 0 THEN None ELSE Some(f.sum)

\* Series::mean as the exact quotient num/den, before the cast to the
\* requested scalar type.
Series_mean(v) ==
    LET f == Fold(v.data, 0, 0)
    IN  IF f.cnt = 0 THEN None ELSE Some([num |-> f.sum, den |-> f.cnt])

NumericDtypes == {"u32", "i32", "i64", "f32", "f64"}

Abs(x) == IF x < 0 THEN -x ELSE x

\* Integer division of the machine: the quotient is truncated toward zero.
TruncDiv(a, b) ==
    IF (a < 0) = (b < 0) THEN Abs(a) \div Abs(b) ELSE -(Abs(a) \div Abs(b))

Apply(op, x, y) ==
    CASE op = "add" -> x + y
      [] op = "sub" -> x - y
      [] op = "mul" -> x * y
      [] op = "div" -> TruncDiv(x, y)

\* &Series op &Series: elementwise, a null operand gives null.  The operator
\* returns a Series, so a failure can only unwind.
Series_arith(op, a, b) ==
    IF a.dtype # b.dtype THEN Panic("data types don't match")
    ELSE IF a.dtype \notin NumericDtypes THEN Panic("unsupported dtype")
    ELSE IF Len(a.data) # Len(b.data) THEN Panic("lengths don't match")
    ELSE Ok(SeriesVal(a.name, a.dtype,
            [i \in 1..Len(a.data) |->
                IF IsNull(a.data[i]) \/ IsNull(b.data[i]) THEN Null
                ELSE Val(Apply(op, Get(a.data[i]), Get(b.data[i])))]))

\* &Series op scalar (lhs = TRUE) and scalar.op(&Series) (lhs = FALSE).
\* Divisors are kept non-zero by the callers below.
Series_arith_scalar(op, v, k, lhs) ==
    SeriesVal(v.name, v.dtype,
        [i \in 1..Len(v.data) |->
            IF IsNull(v.data[i]) THEN Null
            ELSE IF lhs THEN Val(Apply(op, Get(v.data[i]), k))
            ELSE Val(Apply(op, k, Get(v.data[i])))])

\* =====================================================================
\* The wrapper: errors, PySeries methods.
\* =====================================================================

\* PyPolarsEr::Any(#[from] PolarsError).
PyPolarsEr_from(e) == [variant |-> "Any", inner |-> e.polars]

\* RuntimeError::py_err(msg).
RuntimeError_py_err(msg) == [exc |-> "RuntimeError", msg |-> msg]

\* From<PyPolarsEr> for PyErr: a RuntimeError whose message is the Debug
\* rendering of the error, "Any(<kind>)".
PyErr_from(err) == RuntimeError_py_err(<<err.variant, err.inner>>)

\* .map_err(PyPolarsEr::from)? : an Err leaves the method with the PyErr.
Try(r) == IF r.kind = "Err" THEN Err(PyErr_from(PyPolarsEr_from(r.val))) ELSE r

\* The series an object wraps, as name, dtype and element sequence: read
\* through the arena for a held object, directly for a returned one.
V(p, ar) ==
    IF "data" \in DOMAIN p.series THEN p.series ELSE View(p.series, ar)

\* #[derive(Clone)] on PySeries: clone the one field.
PySeries_clone_empty(p) == PySeries_new([p.series EXCEPT !.chunks = <<>>])

PySeries_clone(p) == PySeries_new(Series_clone(p.series))

PySeries_dtype(p) == p.series.dtype

PySeries_rename(p, name) == PySeries_new(Series_rename(p.series, name))

\* append: Err leaves through `?`, otherwise the receiver is the extended series.
PySeries_append_unchecked(p, other) ==
    [self |-> PySeries_new([p.series EXCEPT !.chunks = @ \o other.series.chunks]),
     result |-> Ok(<<>>)]

PySeries_append(p, other) ==
    LET r == Try(Series_append(p.series, other.series))
    IN  IF r.kind = "Err" THEN [self |-> p, result |-> r]
        ELSE [self |-> PySeries_new(r.val), result |-> Ok(<<>>)]

PySeries_filter_polars_error(p, filter, ar) ==
    IF filter.series.dtype = "bool"
    THEN LET r == Try(Series_filter(V(p, ar), V(filter, ar)))
         IN  IF r.kind = "Err" THEN r ELSE Ok(PySeries_new(r.val))
    ELSE Try(Err(PolarsError("TypeMismatch")))

PySeries_filter(p, filter, ar) ==
    IF filter.series.dtype = "bool"
    THEN LET r == Try(Series_filter(V(p, ar), V(filter, ar)))
         IN  IF r.kind = "Err" THEN r ELSE Ok(PySeries_new(r.val))
    ELSE Err(RuntimeError_py_err(<<"Expected a boolean mask">>))

\* add / sub / mul / div: Ok(PySeries::new(&self.series <op> &other.series)).
PySeries_arith(op, p, other, ar) ==
    LET r == Series_arith(op, V(p, ar), V(other, ar))
    IN  IF r.kind = "Panic" THEN r ELSE Ok(PySeries_new(r.val))

PySeries_sort_discarded(p, ar) == [self |-> p, arena |-> ar]

PySeries_sort(p, ar) ==
    LET r == Series_sort(p.series, ar)
    IN  [self |-> PySeries_new(r.series), arena |-> r.arena]

PySeries_argsort(p, ar) == Ok(Series_argsort(V(p, ar)))

PySeries_take(p, indices, ar) ==
    LET r == Try(Series_take(V(p, ar), indices))
    IN  IF r.kind = "Err" THEN r ELSE Ok(PySeries_new(r.val))

PySeries_null_count(p, ar) == Ok(Series_null_count(V(p, ar)))

PySeries_series_equal(p, other, ar) ==
    Ok(Series_series_equal(V(p, ar), V(other, ar)))

\* init_method!(new_bool, bool): a series built from plain values (no nulls).
new_bool(name, val) ==
    PySeries_new(SeriesVal(name, "bool", [i \in 1..Len(val) |-> Val(val[i])]))

\* impl_arithmetic!: Ok(PySeries::new(&self.series <op> other)).
impl_arithmetic(op, p, other, ar) ==
    Ok(PySeries_new(Series_arith_scalar(op, V(p, ar), other, TRUE)))

\* impl_rhs_arithmetic!: Ok(PySeries::new(other.<op>(&self.series))).
impl_rhs_arithmetic_direct(op, p, other, ar) ==
    Ok(PySeries_new(Series_arith_scalar(op, V(p, ar), other, TRUE)))

impl_rhs_arithmetic(op, p, other, ar) ==
    Ok(PySeries_new(Series_arith_scalar(op, V(p, ar), other, FALSE)))

sub_i32(p, other, ar) == impl_arithmetic("sub", p, other, ar)

div_i32(p, other, ar) == impl_arithmetic("div", p, other, ar)

sub_i32_rhs(p, other, ar) == impl_rhs_arithmetic("sub", p, other, ar)

div_i32_rhs(p, other, ar) == impl_rhs_arithmetic("div", p, other, ar)

\* impl_sum!(sum_i32, i32): Ok(self.series.sum()).
sum_i32_or_zero(p, ar) ==
    LET r == Series_sum(V(p, ar)) IN Ok(IF Len(r) = 0 THEN Some(0) ELSE r)

sum_i32(p, ar) == Ok(Series_sum(V(p, ar)))

\* impl_mean!(mean_i32, i32): Ok(self.series.mean()) with the result typed
\* Option<i32>, so the quotient is delivered as an i32.
mean_i32(p, ar) ==
    LET m == Series_mean(V(p, ar))
    IN  Ok(IF Len(m) = 0 THEN None ELSE Some(TruncDiv(Get(m).num, Get(m).den)))

\* =====================================================================
\* The caller: two handles on PySeries objects and the calls made on them.
\* =====================================================================
MaxLen == 2       \* longest series built at the start
MaxTotal == 3     \* longest series append may build
MaxChunks == 3    \* arena capacity (sort allocates a chunk)
MaxNChunks == 2   \* longest chunk list append may build

Handles == {"s", "c"}

I32Elems == {Val(1), Val(2), Null}

BoolElems == {Val(TRUE), Val(FALSE), Null}

SeqsUpTo(S, n) == UNION { [1..k -> S] : k \in 0..n }

Exists(h) == obj[h] # NoObj

Call(op, recv, other, arg, result) ==
    [op |-> op, recv |-> recv, other |-> other, arg |-> arg,
     result |-> result, pre |-> V(obj[recv], arena)]

NoCall(pre) ==
    [op |-> "none", recv |-> "s", other |-> "s", arg |-> <<>>,
     result |-> Ok(<<>>), pre |-> pre]

BridgeIdle == coll = Moved /\ mem = <<>> /\ input = <<>> /\ nconv = 0

\* Series arrive from the typed constructors or as data-frame columns through
\* to_pyseries_collection, so they may hold nulls.
\* One i32 series "a" under handle s; handle c is empty until s is cloned.
Init ==
    /\ \E d \in SeqsUpTo(I32Elems, MaxLen) :
          /\ arena = <<d>>
          /\ obj = [h \in Handles |->
                      IF h = "s" THEN PySeries_new(Series("a", "i32", <<1>>))
                      ELSE NoObj]
          /\ last = NoCall(SeriesVal("a", "i32", d))
    /\ BridgeIdle

\* An i32 series "a" under s and an i32 or boolean series "b" under c.
ErrInit ==
    /\ \E d \in SeqsUpTo(I32Elems, MaxLen) :
       \E kind \in {"i32", "bool"} :
       \E e \in (IF kind = "i32" THEN SeqsUpTo(I32Elems, MaxLen)
                 ELSE SeqsUpTo(BoolElems, MaxLen)) :
          /\ arena = <<d, e>>
          /\ obj = [h \in Handles |->
                      IF h = "s" THEN PySeries_new(Series("a", "i32", <<1>>))
                      ELSE PySeries_new(Series("b", kind, <<2>>))]
          /\ last = NoCall(SeriesVal("a", "i32", d))
    /\ BridgeIdle

Clone ==
    /\ Exists("s") /\ ~Exists("c")
    /\ obj' = [obj EXCEPT !["c"] = PySeries_clone(obj["s"])]
    /\ last' = Call("clone", "s", "c", <<>>, Ok(<<>>))
    /\ UNCHANGED <<arena, bridgeVars>>

Rename(h, name) ==
    /\ Exists(h)
    /\ obj' = [obj EXCEPT ![h] = PySeries_rename(obj[h], name)]
    /\ last' = Call("rename", h, h, name, Ok(<<>>))
    /\ UNCHANGED <<arena, bridgeVars>>

AppendTo(h, o) ==
    /\ Exists(h) /\ Exists(o) /\ h # o
    /\ Len(Values(obj[h].series, arena)) + Len(Values(obj[o].series, arena)) <= MaxTotal
    /\ Len(obj[h].series.chunks) + Len(obj[o].series.chunks) <= MaxNChunks
    /\ LET r == PySeries_append(obj[h], obj[o])
       IN  /\ obj' = [obj EXCEPT ![h] = r.self]
           /\ last' = Call("append", h, o, <<>>, r.result)
    /\ UNCHANGED <<arena, bridgeVars>>

Sort(h) ==
    /\ Exists(h)
    /\ Len(arena) < MaxChunks
    /\ LET r == PySeries_sort(obj[h], arena)
       IN  /\ obj' = [obj EXCEPT ![h] = r.self]
           /\ arena' = r.arena
    /\ last' = Call("sort", h, h, <<>>, Ok(<<>>))
    /\ UNCHANGED bridgeVars

SeriesEqual(h, o) ==
    /\ Exists(h) /\ Exists(o)
    /\ last' = Call("series_equal", h, o, <<>>, PySeries_series_equal(obj[h], obj[o], arena))
    /\ UNCHANGED <<obj, arena, bridgeVars>>

Filter(h, o) ==
    /\ Exists(h) /\ Exists(o)
    /\ last' = Call("filter", h, o, <<>>, PySeries_filter(obj[h], obj[o], arena))
    /\ UNCHANGED <<obj, arena, bridgeVars>>

Arith(op, h, o) ==
    /\ Exists(h) /\ Exists(o)
    /\ last' = Call(op, h, o, <<>>, PySeries_arith(op, obj[h], obj[o], arena))
    /\ UNCHANGED <<obj, arena, bridgeVars>>

ArithOps == {"add", "sub", "mul", "div"}

Next ==
    \/ Clone
    \/ \E h \in Handles, name \in Names : Rename(h, name)
    \/ \E h, o \in Handles : AppendTo(h, o)
    \/ \E h \in Handles : Sort(h)
    \/ \E h, o \in Handles : SeriesEqual(h, o)

Spec == Init /\ [][Next]_vars

ErrNext ==
    \/ \E h, o \in Handles : AppendTo(h, o)
    \/ \E h, o \in Handles : Filter(h, o)
    \/ \E op \in ArithOps, h, o \in Handles : Arith(op, h, o)

SpecErr == ErrInit /\ [][ErrNext]_vars

\* ---------------------------------------------------------------------
\* Calls on one numeric series: aggregation, ordering, scalar arithmetic.
\* ---------------------------------------------------------------------
MaxAggLen == 4    \* longest series of the aggregation runs

AggElems == {Val(1), Val(2), Val(4), Null}

Scalars == {-3, 2}

AggInit ==
    /\ \E d \in SeqsUpTo(AggElems, MaxAggLen) :
          /\ arena = <<d>>
          /\ obj = [h \in Handles |->
                      IF h = "s" THEN PySeries_new(Series("a", "i32", <<1>>))
                      ELSE NoObj]
          /\ last = NoCall(SeriesVal("a", "i32", d))
    /\ BridgeIdle

Sum(h) ==
    /\ Exists(h)
    /\ last' = Call("sum_i32", h, h, <<>>, sum_i32(obj[h], arena))
    /\ UNCHANGED <<obj, arena, bridgeVars>>

Mean(h) ==
    /\ Exists(h)
    /\ last' = Call("mean_i32", h, h, <<>>, mean_i32(obj[h], arena))
    /\ UNCHANGED <<obj, arena, bridgeVars>>

NullCount(h) ==
    /\ Exists(h)
    /\ last' = Call("null_count", h, h, <<>>, PySeries_null_count(obj[h], arena))
    /\ UNCHANGED <<obj, arena, bridgeVars>>

Argsort(h) ==
    /\ Exists(h)
    /\ last' = Call("argsort", h, h, <<>>, PySeries_argsort(obj[h], arena))
    /\ UNCHANGED <<obj, arena, bridgeVars>>

\* take with the list argsort just returned, or with a list of one index.
Take(h, indices) ==
    /\ Exists(h)
    /\ last' = Call("take", h, h, indices, PySeries_take(obj[h], indices, arena))
    /\ UNCHANGED <<obj, arena, bridgeVars>>

TakeInputs(h) ==
    (IF last.op = "argsort" /\ last.recv = h THEN {last.result.val} ELSE {})
        \cup {<<0>>, <<Len(V(obj[h], arena).data)>>}

SubI32(h, k) ==
    /\ Exists(h)
    /\ last' = Call("sub_i32", h, h, k, sub_i32(obj[h], k, arena))
    /\ UNCHANGED <<obj, arena, bridgeVars>>

SubI32Rhs(h, k) ==
    /\ Exists(h)
    /\ last' = Call("sub_i32_rhs", h, h, k, sub_i32_rhs(obj[h], k, arena))
    /\ UNCHANGED <<obj, arena, bridgeVars>>

DivI32(h, k) ==
    /\ Exists(h)
    /\ last' = Call("div_i32", h, h, k, div_i32(obj[h], k, arena))
    /\ UNCHANGED <<obj, arena, bridgeVars>>

DivI32Rhs(h, k) ==
    /\ Exists(h)
    /\ last' = Call("div_i32_rhs", h, h, k, div_i32_rhs(obj[h], k, arena))
    /\ UNCHANGED <<obj, arena, bridgeVars>>

AggNext ==
    \/ \E h \in Handles : Sum(h)
    \/ \E h \in Handles : Mean(h)
    \/ \E h \in Handles : NullCount(h)
    \/ \E h \in Handles : Argsort(h)
    \/ \E h \in Handles : \E indices \in TakeInputs(h) : Take(h, indices)
    \/ \E h \in Handles : Sort(h)
    \/ \E h \in Handles, k \in Scalars : SubI32(h, k)
    \/ \E h \in Handles, k \in Scalars : SubI32Rhs(h, k)
    \/ \E h \in Handles, k \in Scalars : DivI32(h, k)
    \/ \E h \in Handles, k \in Scalars : DivI32Rhs(h, k)

SpecAgg == AggInit /\ [][AggNext]_vars

\* C3: a clone is series_equal to its original, and a sort, append or rename
\* on one object leaves the name, dtype and element sequence of every other
\* object as they were.
C3_CloneIndependent ==
    [][ /\ (last'.op = "clone" =>
              PySeries_series_equal(obj'["s"], obj'["c"], arena') = Ok(TRUE))
        /\ (last'.op \in {"sort", "append", "rename"} =>
              \A h \in Handles \ {last'.recv} :
                 V(obj'[h], arena') = V(obj[h], arena)) ]_vars

C3_Witness ==
    /\ last.op = "sort" /\ last.recv = "c"
    /\ V(obj["s"], arena).data = <<Null, Val(1)>>
    /\ V(obj["c"], arena).data = <<Val(1), Null>>

\* C4: append with a differing dtype fails with TypeMismatch and the receiver
\* keeps its name, dtype and elements; no failed call changes its receiver.
C4_AppendMismatchFails ==
    /\ (last.op = "append" /\ last.pre.dtype # PySeries_dtype(obj[last.other])) =>
          /\ last.result =
                Err(RuntimeError_py_err(<<"Any", "TypeMismatch">>))
          /\ V(obj[last.recv], arena) = last.pre
    /\ last.result.kind # "Ok" => V(obj[last.recv], arena) = last.pre

C4_Witness ==
    /\ last.op = "append" /\ last.result.kind = "Err"
    /\ last.pre.dtype = "i32" /\ last.pre.data = <<Val(1), Null>>
    /\ PySeries_dtype(obj[last.other]) = "bool"
    /\ Len(V(obj[last.other], arena).data) > 0

NonBoolMaskCall == last.op = "filter" /\ PySeries_dtype(obj[last.other]) # "bool"

C6_LengthMismatchReported ==
    (/\ last.op \in ArithOps
     /\ Len(last.pre.data) # Len(V(obj[last.other], arena).data)) =>
        last.result = Err(RuntimeError_py_err(<<"Any", "LengthMismatch">>))

\* C7: mean_i32 returns the exact quotient of the sum and the count of the
\* non-null elements.
C7_MeanExactQuotient ==
    (last.op = "mean_i32" /\ Len(last.result.val) > 0) =>
        LET f == Fold(last.pre.data, 0, 0)
        IN  Get(last.result.val) * f.cnt = f.sum

\* The receiver with its nulls filtered out through a caller-built mask.
NonNullPart(p, ar) ==
    LET d == V(p, ar).data
    IN  PySeries_filter(p, new_bool("mask", [i \in 1..Len(d) |-> ~IsNull(d[i])]), ar)

\* C8: sum and mean over a series equal sum and mean over its non-null
\* subsequence, and are absent exactly when every element is null (or there
\* is none).
C8_AggregatesSkipNulls ==
    last.op \in {"sum_i32", "mean_i32"} =>
        LET p == obj[last.recv]
            n == Len(V(p, arena).data)
            k == PySeries_null_count(p, arena).val
            f == NonNullPart(p, arena)
        IN  /\ f.kind = "Ok"
            /\ Len(V(f.val, arena).data) = n - k
            /\ PySeries_null_count(f.val, arena) = Ok(0)
            /\ last.result = (IF last.op = "sum_i32" THEN sum_i32(f.val, arena)
                              ELSE mean_i32(f.val, arena))
            /\ (last.result.val = None <=> k = n)

C8_Witness ==
    /\ last.op = "sum_i32"
    /\ last.pre.data = <<Val(1), Val(2), Null, Val(4)>>
    /\ last.result = Ok(Some(7))

Ascending(dtype, data) ==
    \A i, j \in 1..Len(data) : i < j => ~Before(dtype, data[j], data[i])

\* C9: take(argsort()) is series_equal to sort() on a clone (ascending, nulls
\* last), and argsort and take leave the receiver as it was.
C9_TakeArgsortIsSort ==
    /\ last.op = "argsort" => V(obj[last.recv], arena) = last.pre
    /\ (last.op = "take" /\ PySeries_argsort(obj[last.recv], arena) = Ok(last.arg)) =>
          LET sorted == PySeries_sort(PySeries_clone(obj[last.recv]), arena)
          IN  /\ last.result.kind = "Ok"
              /\ PySeries_series_equal(last.result.val, sorted.self, sorted.arena)
                    = Ok(TRUE)
              /\ Ascending(last.pre.dtype, V(last.result.val, arena).data)
              /\ V(obj[last.recv], arena) = last.pre

C9_Witness ==
    /\ last.op = "take" /\ last.arg = <<0, 1, 3, 2>>
    /\ last.pre.data = <<Val(1), Val(2), Null, Val(4)>>
    /\ V(last.result.val, arena).data = <<Val(1), Val(2), Val(4), Null>>

\* C10: the direct scalar forms compute s[i] - k and s[i] / k, the reversed
\* forms k - s[i] and k / s[i]; the result has the receiver's length and its
\* null positions, and the receiver is left as it was.
C10_ScalarOperandOrder ==
    last.op \in {"sub_i32", "sub_i32_rhs", "div_i32", "div_i32_rhs"} =>
        LET s == last.pre.data
            k == last.arg
        IN  /\ last.result.kind = "Ok"
            /\ V(obj[last.recv], arena) = last.pre
            /\ LET r == V(last.result.val, arena).data
               IN  /\ Len(r) = Len(s)
                   /\ \A i \in 1..Len(s) :
                         /\ IsNull(r[i]) <=> IsNull(s[i])
                         /\ ~IsNull(s[i]) =>
                               Get(r[i]) =
                                  CASE last.op = "sub_i32" -> Get(s[i]) - k
                                    [] last.op = "sub_i32_rhs" -> k - Get(s[i])
                                    [] last.op = "div_i32" -> TruncDiv(Get(s[i]), k)
                                    [] last.op = "div_i32_rhs" -> TruncDiv(k, Get(s[i]))

C10_Witness ==
    /\ last.op = "div_i32_rhs" /\ last.arg = -3
    /\ last.pre.data = <<Val(2), Null, Val(4)>>
    /\ V(last.result.val, arena).data = <<Val(-1), Null, Val(0)>>

====
